---- MODULE Spec2Model ----
(***************************************************************************)
(* A model of the notebook 1-TMVA-Classification-py: a straight-line       *)
(* sequence of calls into the ROOT/TMVA toolkit.  The notebook is a list   *)
(* of cells; the statements of its code cells are executed in textual      *)
(* order, each toolkit call either returns or raises, and nothing in the   *)
(* notebook catches what is raised.                                        *)
(***************************************************************************)
EXTENDS Integers, Sequences, FiniteSets

(* Number of distinct errors a toolkit call can raise. *)
NumErrors == 3

ToolkitErrors == 1..NumErrors

----------------------------------------------------------------------------
(* Statements and their arguments                                          *)

(* A positional argument: a notebook variable, or a literal. *)
V(name) == [var |-> name, kind |-> "var", lit |-> ""]
L(text) == [var |-> "", kind |-> "str", lit |-> text]
F(text) == [var |-> "", kind |-> "float", lit |-> text]
E(text) == [var |-> "", kind |-> "enum", lit |-> text]

(* One token of a colon-delimited option string: key=val, key, or !key. *)
KV(k, v) == [neg |-> FALSE, key |-> k, val |-> v]
On(k)    == [neg |-> FALSE, key |-> k, val |-> ""]
Off(k)   == [neg |-> TRUE,  key |-> k, val |-> ""]

(* A statement: its source line, the operation it performs, the notebook   *)
(* variable it assigns ("" if none), the name its call is rooted in ("" if *)
(* none), its positional arguments and its trailing option string.         *)
Stmt(line, op, target, recv, args, opts) ==
  [line |-> line, op |-> op, target |-> target, recv |-> recv,
   args |-> args, opts |-> opts]

NoArgs == << >>
NoOpts == << >>

----------------------------------------------------------------------------
(* The cells of the notebook, in file order                                *)

Markdown(first) == [type |-> "markdown", first |-> first, stmts |-> << >>]

CellImport ==
  [type |-> "code", first |-> 30, stmts |-> <<
     Stmt(30, "import", "ROOT", "", <<L("ROOT")>>, NoOpts),
     Stmt(31, "import", "TMVA", "", <<L("ROOT"), L("TMVA")>>, NoOpts) >>]

CellFactory ==
  [type |-> "code", first |-> 57, stmts |-> <<
     Stmt(57, "Tools.Instance", "", "ROOT", NoArgs, NoOpts),
     Stmt(59, "PyInitialize", "", "TMVA", NoArgs, NoOpts),
     Stmt(62, "TFile.Open", "outputFile", "ROOT",
          <<L("ClassificationOutput.root"), L("RECREATE")>>, NoOpts),
     Stmt(64, "Factory", "factory", "ROOT",
          <<L("TMVA_Classification"), V("outputFile")>>,
          <<Off("V"), On("ROC"), Off("Silent"), On("Color"),
            Off("DrawProgressBar"), KV("AnalysisType", "Classification")>>) >>]

CellInput ==
  [type |-> "code", first |-> 83, stmts |-> <<
     Stmt(83, "assign", "inputFileName", "", <<L("data/tmva_data.root")>>, NoOpts),
     Stmt(85, "TFile.Open", "inputFile", "ROOT", <<V("inputFileName")>>, NoOpts),
     Stmt(89, "Get", "signalTree", "inputFile", <<L("sig_tree")>>, NoOpts),
     Stmt(90, "Get", "backgroundTree", "inputFile", <<L("bkg_tree")>>, NoOpts) >>]

CellPrint ==
  [type |-> "code", first |-> 106, stmts |-> <<
     Stmt(106, "Print", "", "signalTree", NoArgs, NoOpts) >>]

(* CellLoader with the second variable a repeat of the first. *)
CellLoaderRepeat ==
  [type |-> "code", first |-> 126, stmts |-> <<
     Stmt(126, "DataLoader", "loader", "ROOT", <<L("dataset")>>, NoOpts),
     Stmt(129, "assign", "signalWeight", "", <<F("1.0")>>, NoOpts),
     Stmt(130, "assign", "backgroundWeight", "", <<F("1.0")>>, NoOpts),
     Stmt(133, "AddSignalTree", "", "loader",
          <<V("signalTree"), V("signalWeight")>>, NoOpts),
     Stmt(134, "AddBackgroundTree", "", "loader",
          <<V("backgroundTree"), V("backgroundWeight")>>, NoOpts),
     Stmt(138, "AddVariable", "", "loader", <<L("m_jj")>>, NoOpts),
     Stmt(139, "AddVariable", "", "loader", <<L("m_jj")>>, NoOpts),
     Stmt(140, "AddVariable", "", "loader", <<L("m_lv")>>, NoOpts),
     Stmt(141, "AddVariable", "", "loader", <<L("m_jlv")>>, NoOpts),
     Stmt(142, "AddVariable", "", "loader", <<L("m_bb")>>, NoOpts),
     Stmt(143, "AddVariable", "", "loader", <<L("m_wbb")>>, NoOpts),
     Stmt(144, "AddVariable", "", "loader", <<L("m_wwbb")>>, NoOpts) >>]

CellLoader ==
  [type |-> "code", first |-> 126, stmts |-> <<
     Stmt(126, "DataLoader", "loader", "ROOT", <<L("dataset")>>, NoOpts),
     Stmt(129, "assign", "signalWeight", "", <<F("1.0")>>, NoOpts),
     Stmt(130, "assign", "backgroundWeight", "", <<F("1.0")>>, NoOpts),
     Stmt(133, "AddSignalTree", "", "loader",
          <<V("signalTree"), V("signalWeight")>>, NoOpts),
     Stmt(134, "AddBackgroundTree", "", "loader",
          <<V("backgroundTree"), V("backgroundWeight")>>, NoOpts),
     Stmt(138, "AddVariable", "", "loader", <<L("m_jj")>>, NoOpts),
     Stmt(139, "AddVariable", "", "loader", <<L("m_jjj")>>, NoOpts),
     Stmt(140, "AddVariable", "", "loader", <<L("m_lv")>>, NoOpts),
     Stmt(141, "AddVariable", "", "loader", <<L("m_jlv")>>, NoOpts),
     Stmt(142, "AddVariable", "", "loader", <<L("m_bb")>>, NoOpts),
     Stmt(143, "AddVariable", "", "loader", <<L("m_wbb")>>, NoOpts),
     Stmt(144, "AddVariable", "", "loader", <<L("m_wwbb")>>, NoOpts) >>]

(* CellSplit with the second cut bound to the first cut's name. *)
CellSplitSameName ==
  [type |-> "code", first |-> 163, stmts |-> <<
     Stmt(165, "TCut", "mycuts", "ROOT", <<L("")>>, NoOpts),
     Stmt(166, "TCut", "mycuts", "ROOT", <<L("")>>, NoOpts),
     Stmt(169, "PrepareTrainingAndTestTree", "", "loader",
          <<V("mycuts"), V("mycutb")>>,
          <<KV("nTrain_Signal", "7000"), KV("nTrain_Background", "7000"),
            KV("SplitMode", "Random")>>
          \o <<KV("NormMode", "NumEvents"), Off("V")>>) >>]

(* Lines 170-171 are two adjacent string literals, which Python joins; the *)
(* first ends in ":" so the tokens of the second follow those of the first.*)
CellSplit ==
  [type |-> "code", first |-> 163, stmts |-> <<
     Stmt(165, "TCut", "mycuts", "ROOT", <<L("")>>, NoOpts),
     Stmt(166, "TCut", "mycutb", "ROOT", <<L("")>>, NoOpts),
     Stmt(169, "PrepareTrainingAndTestTree", "", "loader",
          <<V("mycuts"), V("mycutb")>>,
          <<KV("nTrain_Signal", "7000"), KV("nTrain_Background", "7000"),
            KV("SplitMode", "Random")>>
          \o <<KV("NormMode", "NumEvents"), Off("V")>>) >>]

CellBook ==
  [type |-> "code", first |-> 189, stmts |-> <<
     Stmt(190, "BookMethod", "", "factory",
          <<V("loader"), E("kBDT"), L("BDT")>>,
          <<Off("V"), KV("NTrees", "200"), KV("MinNodeSize", "2.5%"),
            KV("MaxDepth", "2"), KV("BoostType", "AdaBoost"),
            KV("AdaBoostBeta", "0.5"), On("UseBaggedBoost")>>
          \o <<KV("BaggedSampleFraction", "0.5"),
               KV("SeparationType", "GiniIndex"), KV("nCuts", "20")>>),
     Stmt(195, "BookMethod", "", "factory",
          <<V("loader"), E("kMLP"), L("MLP")>>,
          <<Off("H"), Off("V"), KV("NeuronType", "tanh"),
            KV("VarTransform", "N"), KV("NCycles", "100"),
            KV("HiddenLayers", "N+5"), KV("TestRate", "5"),
            Off("UseRegulator")>>) >>]

CellSklearn ==
  [type |-> "raw", first |-> 213, stmts |-> <<
     Stmt(213, "BookMethod", "", "factory",
          <<V("loader"), E("kPyGTB"), L("PyGTB")>>,
          <<On("H"), Off("V"), KV("VarTransform", "G"),
            KV("NEstimators", "400"), KV("LearningRate", "0.1")>>
          \o <<KV("MaxDepth", "3")>>),
     Stmt(216, "BookMethod", "", "factory",
          <<V("loader"), E("kPyRandomForest"), L("PyRandomForest")>>,
          <<Off("V"), KV("VarTransform", "G"), KV("NEstimators", "400")>>
          \o <<KV("Criterion", "gini"), KV("MaxFeatures", "auto"),
               KV("MaxDepth", "6"), KV("MinSamplesLeaf", "3"),
               KV("MinWeightFractionLeaf", "0")>>
          \o <<KV("Bootstrap", "kTRUE")>>),
     Stmt(220, "BookMethod", "", "factory",
          <<V("loader"), E("kPyAdaBoost"), L("PyAdaBoost")>>,
          <<Off("V"), KV("VarTransform", "G"), KV("NEstimators", "400")>>) >>]

CellTrain ==
  [type |-> "code", first |-> 236, stmts |-> <<
     Stmt(236, "TrainAllMethods", "", "factory", NoArgs, NoOpts) >>]

CellTest ==
  [type |-> "code", first |-> 254, stmts |-> <<
     Stmt(254, "TestAllMethods", "", "factory", NoArgs, NoOpts) >>]

CellEvaluate ==
  [type |-> "code", first |-> 272, stmts |-> <<
     Stmt(272, "EvaluateAllMethods", "", "factory", NoArgs, NoOpts) >>]

CellJsroot ==
  [type |-> "code", first |-> 289, stmts |-> <<
     Stmt(289, "jsroot", "", "", <<L("on")>>, NoOpts) >>]

CellROC ==
  [type |-> "code", first |-> 298, stmts |-> <<
     Stmt(298, "GetROCCurve", "c1", "factory", <<V("loader")>>, NoOpts),
     Stmt(299, "Draw", "", "c1", NoArgs, NoOpts) >>]

CellClose ==
  [type |-> "code", first |-> 315, stmts |-> <<
     Stmt(315, "Close", "", "outputFile", NoArgs, NoOpts) >>]

CellEmpty == [type |-> "code", first |-> 323, stmts |-> << >>]

(* Cells with the training cell ahead of the booking cell. *)
CellsTrainBeforeBook ==
  << Markdown(7),   CellImport,
     Markdown(38),  CellFactory,
     Markdown(72),  CellInput,
     Markdown(97),  CellPrint,
     Markdown(113), CellLoader,
     Markdown(151), CellSplit,
     Markdown(227), CellTrain,
     Markdown(178), CellBook,
     Markdown(203), CellSklearn,
     Markdown(243), CellTest,
     Markdown(261), CellEvaluate,
     Markdown(279), CellJsroot, CellROC,
     Markdown(306), CellClose, CellEmpty >>

(* Cells with the output file closed ahead of the plotting cells. *)
CellsCloseBeforePlot ==
  << Markdown(7),   CellImport,
     Markdown(38),  CellFactory,
     Markdown(72),  CellInput,
     Markdown(97),  CellPrint,
     Markdown(113), CellLoader,
     Markdown(151), CellSplit,
     Markdown(178), CellBook,
     Markdown(203), CellSklearn,
     Markdown(227), CellTrain,
     Markdown(243), CellTest,
     Markdown(261), CellEvaluate,
     Markdown(306), CellClose,
     Markdown(279), CellJsroot, CellROC, CellEmpty >>

Cells ==
  << Markdown(7),   CellImport,
     Markdown(38),  CellFactory,
     Markdown(72),  CellInput,
     Markdown(97),  CellPrint,
     Markdown(113), CellLoader,
     Markdown(151), CellSplit,
     Markdown(178), CellBook,
     Markdown(203), CellSklearn,
     Markdown(227), CellTrain,
     Markdown(243), CellTest,
     Markdown(261), CellEvaluate,
     Markdown(279), CellJsroot, CellROC,
     Markdown(306), CellClose, CellEmpty >>

(* IsExecuted with raw cells run as code. *)
IsExecutedRaw(cell) == cell.type \in {"code", "raw"}

(* Only code cells are executed; markdown and raw cells are not. *)
IsExecuted(cell) == cell.type = "code"

RECURSIVE Flatten(_)
Flatten(cs) ==
  IF cs = << >> THEN << >>
  ELSE (IF IsExecuted(Head(cs)) THEN Head(cs).stmts ELSE << >>)
       \o Flatten(Tail(cs))

(* The statements of a run, in execution order. *)
Program == Flatten(Cells)

NumStmts == Len(Program)

----------------------------------------------------------------------------
(* State                                                                   *)

VARIABLES
  pc,         \* index into Program of the next statement
  status,     \* "running", "done" or "failed"
  err,        \* the error the run ended with, NoError if none
  raised,     \* what the toolkit raised, in order: <<[code, at]>>
  env,        \* the notebook's namespace: name -> value
  assigned,   \* name -> number of times it was bound
  execCount,  \* statement index -> number of times it was executed
  calls,      \* toolkit calls issued so far, in order
  heap,       \* toolkit objects by handle
  tools,      \* toolkit-wide state
  factory,    \* the TMVA Factory
  loader      \* the TMVA DataLoader

vars == <<pc, status, err, raised, env, assigned, execCount, calls, heap,
          tools, factory, loader>>

Names == {"ROOT", "TMVA", "outputFile", "factory", "inputFileName",
          "inputFile", "signalTree", "backgroundTree", "loader",
          "signalWeight", "backgroundWeight", "mycuts", "mycutb", "c1"}

Unset == [kind |-> "unset", id |-> 0, lit |-> ""]
Handle(h) == [kind |-> "handle", id |-> h, lit |-> ""]
Module(n) == [kind |-> "module", id |-> 0, lit |-> n]

NoError == [kind |-> "none", code |-> 0, at |-> 0]

NoFactory ==
  [h |-> 0, job |-> "", file |-> 0, opts |-> << >>, methods |-> << >>,
   trained |-> FALSE, tested |-> FALSE, evaluated |-> FALSE]

NoLoader ==
  [h |-> 0, name |-> "", sig |-> << >>, bkg |-> << >>, variables |-> << >>,
   prepared |-> FALSE, cuts |-> << >>, opts |-> << >>]

Init ==
  /\ pc = 1
  /\ status = IF NumStmts = 0 THEN "done" ELSE "running"
  /\ err = NoError
  /\ raised = << >>
  /\ env = [n \in Names |-> Unset]
  /\ assigned = [n \in Names |-> 0]
  /\ execCount = [i \in 1..NumStmts |-> 0]
  /\ calls = << >>
  /\ heap = << >>
  /\ tools = [instance |-> FALSE, py |-> FALSE, jsroot |-> "", drawn |-> 0]
  /\ factory = NoFactory
  /\ loader = NoLoader

----------------------------------------------------------------------------
(* Execution of one statement                                              *)

Cur == Program[pc]

At(op) == status = "running" /\ pc \in 1..NumStmts /\ Cur.op = op

(* Value of an argument in the current namespace. *)
Eval(a) ==
  IF a.kind = "var" THEN env[a.var]
  ELSE [kind |-> a.kind, id |-> 0, lit |-> a.lit]

Arg(k) == Eval(Cur.args[k])

(* Names a statement looks up before it can make its call. *)
NamesRead(s) ==
  (IF s.recv = "" THEN {} ELSE {s.recv})
  \cup {s.args[k].var : k \in {j \in DOMAIN s.args : s.args[j].kind = "var"}}

Bound == \A n \in NamesRead(Cur) : env[n] # Unset

(* Succ with a conditional that may skip the following statement. *)
SuccBranch(i) == {i + 1, i + 2}

(* Every statement is a simple statement: control passes to the next one.  *)
Succ(i) == {i + 1}

(* Propagate with the call wrapped in a handler that swallows the error.   *)
PropagateCaught(e) == [status |-> "running", err |-> NoError, pc |-> pc + 1]

(* No statement is inside a try block: what a call raises ends the run.    *)
Propagate(e) ==
  [status |-> "failed", err |-> [kind |-> "toolkit", code |-> e, at |-> pc],
   pc |-> pc]

Issue == calls' = Append(calls, [i |-> pc, op |-> Cur.op, line |-> Cur.line])

(* The statement completes with value val. *)
Return(val) ==
  /\ pc' \in Succ(pc)
  /\ status' = IF pc' > NumStmts THEN "done" ELSE "running"
  /\ env' = IF Cur.target = "" THEN env
            ELSE [env EXCEPT ![Cur.target] = val]
  /\ assigned' = IF Cur.target = "" THEN assigned
                 ELSE [assigned EXCEPT ![Cur.target] = @ + 1]
  /\ execCount' = [execCount EXCEPT ![pc] = @ + 1]
  /\ UNCHANGED <<err, raised>>

(* Python raises NameError when a statement reads an unbound name. *)
NameFail ==
  /\ status' = "failed"
  /\ err' = [kind |-> "NameError", code |-> 0, at |-> pc]
  /\ execCount' = [execCount EXCEPT ![pc] = @ + 1]
  /\ UNCHANGED <<pc, raised, env, assigned, calls, heap, tools, factory,
                 loader>>

NewObj(kind, name, mode, owner) ==
  [kind |-> kind, name |-> name, mode |-> mode, owner |-> owner,
   open |-> kind = "TFile", closes |-> 0]

Alloc(obj) == heap' = Append(heap, obj)
Fresh == Handle(Len(heap) + 1)

----------------------------------------------------------------------------
(* One action per operation of the notebook                                *)

Import ==
  /\ At("import")
  /\ IF ~Bound THEN NameFail ELSE
       /\ Return(Module(Cur.args[Len(Cur.args)].lit))
       /\ Issue
       /\ UNCHANGED <<heap, tools, factory, loader>>

ToolsInstance ==
  /\ At("Tools.Instance")
  /\ IF ~Bound THEN NameFail ELSE
       /\ tools' = [tools EXCEPT !.instance = TRUE]
       /\ Return(Unset) /\ Issue
       /\ UNCHANGED <<heap, factory, loader>>

PyInitialize ==
  /\ At("PyInitialize")
  /\ IF ~Bound THEN NameFail ELSE
       /\ tools' = [tools EXCEPT !.py = TRUE]
       /\ Return(Unset) /\ Issue
       /\ UNCHANGED <<heap, factory, loader>>

TFileOpen ==
  /\ At("TFile.Open")
  /\ IF ~Bound THEN NameFail ELSE
       /\ Alloc(NewObj("TFile", Arg(1).lit,
                       IF Len(Cur.args) >= 2 THEN Arg(2).lit ELSE "READ", 0))
       /\ Return(Fresh) /\ Issue
       /\ UNCHANGED <<tools, factory, loader>>

NewFactory ==
  /\ At("Factory")
  /\ IF ~Bound THEN NameFail ELSE
       /\ Alloc(NewObj("Factory", Arg(1).lit, "", Arg(2).id))
       /\ factory' = [NoFactory EXCEPT !.h = Len(heap) + 1,
                                       !.job = Arg(1).lit,
                                       !.file = Arg(2).id,
                                       !.opts = Cur.opts]
       /\ Return(Fresh) /\ Issue
       /\ UNCHANGED <<tools, loader>>

Assign ==
  /\ At("assign")
  /\ IF ~Bound THEN NameFail ELSE
       /\ Return(Arg(1))
       /\ UNCHANGED <<calls, heap, tools, factory, loader>>

Get ==
  /\ At("Get")
  /\ IF ~Bound THEN NameFail ELSE
       /\ Alloc(NewObj("TTree", Arg(1).lit, "", env[Cur.recv].id))
       /\ Return(Fresh) /\ Issue
       /\ UNCHANGED <<tools, factory, loader>>

PrintTree ==
  /\ At("Print")
  /\ IF ~Bound THEN NameFail ELSE
       /\ Return(Unset) /\ Issue
       /\ UNCHANGED <<heap, tools, factory, loader>>

NewDataLoader ==
  /\ At("DataLoader")
  /\ IF ~Bound THEN NameFail ELSE
       /\ Alloc(NewObj("DataLoader", Arg(1).lit, "", 0))
       /\ loader' = [NoLoader EXCEPT !.h = Len(heap) + 1,
                                     !.name = Arg(1).lit]
       /\ Return(Fresh) /\ Issue
       /\ UNCHANGED <<tools, factory>>

AddSignalTree ==
  /\ At("AddSignalTree")
  /\ IF ~Bound THEN NameFail ELSE
       /\ loader' = [loader EXCEPT !.sig =
                       Append(@, [tree |-> Arg(1).id, weight |-> Arg(2).lit])]
       /\ Return(Unset) /\ Issue
       /\ UNCHANGED <<heap, tools, factory>>

AddBackgroundTree ==
  /\ At("AddBackgroundTree")
  /\ IF ~Bound THEN NameFail ELSE
       /\ loader' = [loader EXCEPT !.bkg =
                       Append(@, [tree |-> Arg(1).id, weight |-> Arg(2).lit])]
       /\ Return(Unset) /\ Issue
       /\ UNCHANGED <<heap, tools, factory>>

AddVariable ==
  /\ At("AddVariable")
  /\ IF ~Bound THEN NameFail ELSE
       /\ loader' = [loader EXCEPT !.variables = Append(@, Arg(1).lit)]
       /\ Return(Unset) /\ Issue
       /\ UNCHANGED <<heap, tools, factory>>

TCut ==
  /\ At("TCut")
  /\ IF ~Bound THEN NameFail ELSE
       /\ Alloc(NewObj("TCut", Arg(1).lit, "", 0))
       /\ Return(Fresh) /\ Issue
       /\ UNCHANGED <<tools, factory, loader>>

PrepareTrainingAndTestTree ==
  /\ At("PrepareTrainingAndTestTree")
  /\ IF ~Bound THEN NameFail ELSE
       /\ loader' = [loader EXCEPT !.prepared = TRUE,
                                   !.cuts = <<Arg(1).id, Arg(2).id>>,
                                   !.opts = Cur.opts]
       /\ Return(Unset) /\ Issue
       /\ UNCHANGED <<heap, tools, factory>>

BookMethod ==
  /\ At("BookMethod")
  /\ IF ~Bound THEN NameFail ELSE
       /\ factory' = [factory EXCEPT !.methods =
                        Append(@, [loader |-> Arg(1).id, type |-> Arg(2).lit,
                                   name |-> Arg(3).lit, opts |-> Cur.opts])]
       /\ Return(Unset) /\ Issue
       /\ UNCHANGED <<heap, tools, loader>>

TrainAllMethods ==
  /\ At("TrainAllMethods")
  /\ IF ~Bound THEN NameFail ELSE
       /\ factory' = [factory EXCEPT !.trained = TRUE]
       /\ Return(Unset) /\ Issue
       /\ UNCHANGED <<heap, tools, loader>>

TestAllMethods ==
  /\ At("TestAllMethods")
  /\ IF ~Bound THEN NameFail ELSE
       /\ factory' = [factory EXCEPT !.tested = TRUE]
       /\ Return(Unset) /\ Issue
       /\ UNCHANGED <<heap, tools, loader>>

EvaluateAllMethods ==
  /\ At("EvaluateAllMethods")
  /\ IF ~Bound THEN NameFail ELSE
       /\ factory' = [factory EXCEPT !.evaluated = TRUE]
       /\ Return(Unset) /\ Issue
       /\ UNCHANGED <<heap, tools, loader>>

Jsroot ==
  /\ At("jsroot")
  /\ IF ~Bound THEN NameFail ELSE
       /\ tools' = [tools EXCEPT !.jsroot = Arg(1).lit]
       /\ Return(Unset) /\ Issue
       /\ UNCHANGED <<heap, factory, loader>>

GetROCCurve ==
  /\ At("GetROCCurve")
  /\ IF ~Bound THEN NameFail ELSE
       /\ Alloc(NewObj("TCanvas", "ROC", "", env[Cur.recv].id))
       /\ Return(Fresh) /\ Issue
       /\ UNCHANGED <<tools, factory, loader>>

Draw ==
  /\ At("Draw")
  /\ IF ~Bound THEN NameFail ELSE
       /\ tools' = [tools EXCEPT !.drawn = @ + 1]
       /\ Return(Unset) /\ Issue
       /\ UNCHANGED <<heap, factory, loader>>

Close ==
  /\ At("Close")
  /\ IF ~Bound THEN NameFail ELSE
       /\ heap' = [heap EXCEPT ![env[Cur.recv].id] =
                     [@ EXCEPT !.open = FALSE, !.closes = @ + 1]]
       /\ Return(Unset) /\ Issue
       /\ UNCHANGED <<tools, factory, loader>>

(* A toolkit call raises instead of returning. *)
Raise ==
  /\ status = "running" /\ pc \in 1..NumStmts
  /\ Cur.op # "assign"
  /\ Bound
  /\ \E e \in ToolkitErrors :
       /\ raised' = Append(raised, [code |-> e, at |-> pc])
       /\ status' = Propagate(e).status
       /\ err' = Propagate(e).err
       /\ pc' = Propagate(e).pc
  /\ Issue
  /\ execCount' = [execCount EXCEPT ![pc] = @ + 1]
  /\ UNCHANGED <<env, assigned, heap, tools, factory, loader>>

Next ==
  \/ Import \/ ToolsInstance \/ PyInitialize \/ TFileOpen \/ NewFactory
  \/ Assign \/ Get \/ PrintTree \/ NewDataLoader \/ AddSignalTree
  \/ AddBackgroundTree \/ AddVariable \/ TCut
  \/ PrepareTrainingAndTestTree \/ BookMethod \/ TrainAllMethods
  \/ TestAllMethods \/ EvaluateAllMethods \/ Jsroot \/ GetROCCurve
  \/ Draw \/ Close \/ Raise

Spec == Init /\ [][Next]_vars

(* The interpreter always goes on to the next statement, and a toolkit     *)
(* call returns or raises.                                                 *)
FairSpec == Spec /\ WF_vars(Next)

TypeOK ==
  /\ pc \in 1..(NumStmts + 1)
  /\ status \in {"running", "done", "failed"}
  /\ Len(calls) <= NumStmts

----------------------------------------------------------------------------
(* Helpers for the properties                                              *)

Range(f) == {f[k] : k \in DOMAIN f}

HasKey(opts, k) == \E t \in Range(opts) : t.key = k /\ ~t.neg /\ t.val # ""
HasOpt(opts, k, v) == \E t \in Range(opts) : t.key = k /\ ~t.neg /\ t.val = v

(* The phase (a)..(i) = 1..9 a statement's call belongs to, 0 if none. *)
Phase(s) ==
  CASE s.op \in {"Tools.Instance", "PyInitialize", "Factory"} -> 1
    [] s.op = "TFile.Open" -> IF s.target = "outputFile" THEN 1 ELSE 2
    [] s.op = "Get" -> 2
    [] s.op \in {"AddSignalTree", "AddBackgroundTree", "AddVariable"} -> 3
    [] s.op = "PrepareTrainingAndTestTree" -> 4
    [] s.op = "BookMethod" -> 5
    [] s.op = "TrainAllMethods" -> 6
    [] s.op = "TestAllMethods" -> 7
    [] s.op = "EvaluateAllMethods" -> 8
    [] s.op \in {"GetROCCurve", "Draw"} -> 9
    [] OTHER -> 0

CallPhase(k) == Phase(Program[calls[k].i])

Before(opsA, opsB) ==
  \A i, j \in DOMAIN calls :
    (calls[i].op \in opsA /\ calls[j].op \in opsB) => i < j

OutputFiles ==
  {h \in DOMAIN heap : heap[h].kind = "TFile" /\ heap[h].mode = "RECREATE"}

OutputClosed ==
  \E h \in OutputFiles : ~heap[h].open /\ heap[h].closes = 1

NotebookVars == Names \ {"ROOT", "TMVA"}

----------------------------------------------------------------------------
(* C1: in every run the toolkit calls are issued in phase order (a)        *)
(* initialization, (b) input file and trees, (c) registration on the       *)
(* DataLoader, (d) PrepareTrainingAndTestTree, (e) BookMethod, (f) train,  *)
(* (g) test, (h) evaluate, (i) GetROCCurve and Draw: no call of a later    *)
(* phase precedes a call of an earlier one, and a completed run has made   *)
(* calls of all nine phases.                                               *)
C1_PhaseOrder ==
  /\ \A i, j \in DOMAIN calls :
       (i < j /\ CallPhase(i) # 0 /\ CallPhase(j) # 0)
         => CallPhase(i) <= CallPhase(j)
  /\ status = "done" =>
       \A ph \in 1..9 : \E k \in DOMAIN calls : CallPhase(k) = ph

C1_Witness ==
  /\ status = "done"
  /\ \E k \in DOMAIN calls : calls[k].op = "Draw"
  /\ \E k \in DOMAIN calls : calls[k].op = "Tools.Instance"

C3_ErrorSurfaces ==
  /\ Len(raised) <= 1
  /\ raised # << >> =>
       /\ status = "failed"
       /\ err = [kind |-> "toolkit", code |-> raised[1].code,
                 at |-> raised[1].at]
       /\ pc = raised[1].at
       /\ calls[Len(calls)].i = raised[1].at
       /\ \A i \in 1..NumStmts : i > raised[1].at => execCount[i] = 0
  /\ status = "failed" => raised # << >>

C3_Witness ==
  /\ status = "failed"
  /\ Program[pc].op = "TrainAllMethods"
  /\ err.kind = "toolkit" /\ err.code = 2
  /\ ~factory.trained

(* C4: execution is sequential and branch-free: in every state at most one *)
(* statement can execute next, it is the first one not yet executed, every *)
(* statement is executed at most once, and statements are executed in      *)
(* textual order.                                                          *)
CanExecute(i) == ENABLED (Next /\ execCount'[i] = execCount[i] + 1)

C4_Sequential ==
  /\ Cardinality({i \in 1..NumStmts : CanExecute(i)}) <= 1
  /\ \A i \in 1..NumStmts :
       /\ execCount[i] <= 1
       /\ CanExecute(i) => \A j \in 1..NumStmts : execCount[j] = 1 <=> j < i
       /\ \A j \in 1..NumStmts : (j < i /\ execCount[i] = 1) => execCount[j] = 1
  /\ \A i, j \in 1..NumStmts : i < j => Program[i].line < Program[j].line

C4_Witness ==
  /\ status = "running"
  /\ Program[pc].op = "PrepareTrainingAndTestTree"
  /\ {i \in 1..NumStmts : CanExecute(i)} = {pc}
  /\ \A j \in 1..NumStmts : execCount[j] = 1 <=> j < pc

(* C5: the option string of PrepareTrainingAndTestTree sets SplitMode to   *)
(* Random and gives an event count for the training and for the test       *)
(* sample, of signal and of background.                                    *)
C5_SplitFixesTrainAndTest ==
  loader.prepared =>
    /\ HasOpt(loader.opts, "SplitMode", "Random")
    /\ HasKey(loader.opts, "nTrain_Signal")
    /\ HasKey(loader.opts, "nTrain_Background")
    /\ HasKey(loader.opts, "nTest_Signal")
    /\ HasKey(loader.opts, "nTest_Background")

(* C6: the output file ClassificationOutput.root is opened in mode         *)
(* RECREATE before the Factory is built on it; it is closed at most once,  *)
(* by the last call of the run, after training, testing, evaluation and    *)
(* plotting; a run that completes has closed it, and every run either      *)
(* fails on a raising call or ends with the file closed.                   *)
C6_CloseLast ==
  /\ factory.h # 0 =>
       /\ factory.file \in OutputFiles
       /\ factory.file < factory.h
       /\ heap[factory.file].name = "ClassificationOutput.root"
  /\ \A h \in DOMAIN heap : heap[h].closes <= 1
  /\ Cardinality({k \in DOMAIN calls : calls[k].op = "Close"}) <= 1
  /\ \A k \in DOMAIN calls : calls[k].op = "Close" => k = Len(calls)
  /\ \A h \in DOMAIN heap : heap[h].closes > 0 =>
       /\ h = factory.file
       /\ factory.trained /\ factory.tested /\ factory.evaluated
       /\ tools.drawn = 1
       /\ \E k \in DOMAIN calls : calls[k].op = "GetROCCurve"
       /\ status = "done"
  /\ status = "done" => OutputClosed

C6_OutputSaved == []C6_CloseLast /\ <>(status = "failed" \/ OutputClosed)

C6_Witness ==
  /\ status = "done"
  /\ OutputClosed
  /\ factory.evaluated

(* C7: on the DataLoader the signal and background trees are added before  *)
(* the input variables, and all of them before the split: when the split   *)
(* is prepared the loader holds one signal and one background tree, each   *)
(* of weight 1.0, and the seven distinct variables m_jj, m_jjj, m_lv,      *)
(* m_jlv, m_bb, m_wbb, m_wwbb; nothing is added after the split or after   *)
(* booking.                                                                *)
C7_LoaderContents ==
  /\ (At("PrepareTrainingAndTestTree") \/ loader.prepared) =>
       /\ loader.sig = <<[tree |-> env["signalTree"].id, weight |-> "1.0"]>>
       /\ loader.bkg = <<[tree |-> env["backgroundTree"].id, weight |-> "1.0"]>>
       /\ heap[loader.sig[1].tree].name = "sig_tree"
       /\ heap[loader.bkg[1].tree].name = "bkg_tree"
       /\ Len(loader.variables) = 7
       /\ Range(loader.variables) =
            {"m_jj", "m_jjj", "m_lv", "m_jlv", "m_bb", "m_wbb", "m_wwbb"}
  /\ Before({"AddSignalTree", "AddBackgroundTree"}, {"AddVariable"})
  /\ Before({"AddSignalTree", "AddBackgroundTree", "AddVariable"},
            {"PrepareTrainingAndTestTree", "BookMethod"})

C7_Witness ==
  /\ loader.prepared
  /\ Len(loader.variables) = 7
  /\ Len(loader.sig) = 1 /\ Len(loader.bkg) = 1

(* C8: every notebook variable is bound exactly once, is bound before any  *)
(* statement reads it, and keeps its value through every later step.       *)
C8_BoundOnce ==
  /\ \A n \in NotebookVars :
       /\ assigned[n] <= 1
       /\ assigned[n] = 0 <=> env[n] = Unset
       /\ status = "done" => assigned[n] = 1
  /\ err.kind # "NameError"

C8_Kept == \A n \in NotebookVars : env[n] # Unset => env'[n] = env[n]

C8_SingleAssignment == []C8_BoundOnce /\ [][C8_Kept]_vars

C8_Witness ==
  /\ status = "done"
  /\ \A n \in NotebookVars : assigned[n] = 1 /\ env[n] # Unset

====
